---- MODULE Spec2Model ----
(***************************************************************************)
(* State-machine model of the session manager of web-sdk-rs                *)
(* (packages/web-sdk-rs/src/session/manager.rs): the key store `sessions`, *)
(* the capability builder `builder`, and the operations on them.           *)
(*                                                                         *)
(* Option<T> values are modelled as sets: None is {} and Some(x) is {x}.   *)
(***************************************************************************)
EXTENDS Integers, Sequences, FiniteSets, TLC

\* ---------------------------------------------------------------- bounds
\* Number of distinct key materials JWK::generate_ed25519 can produce.
MaxGenerated == 1

\* Largest number of grants the capability builder holds.
MaxGrants == 1

\* ------------------------------------------------------------ Option<T>
None == {}

Some(x) == {x}

unwrap(o) == CHOOSE x \in o : TRUE

unwrap_or(o, d) == IF o = None THEN d ELSE unwrap(o)

\* Option::or : the first option when it is Some, else the second.
opt_or(o1, o2) == IF o1 # None THEN o1 ELSE o2

\* ------------------------------------------------------------ data model
DEFAULT_KEY_ID == "default"

\* Key ids the callers use.
KeyIds == {DEFAULT_KEY_ID, "a", "b"}

\* Key ids of the callers of the whole manager.
SmallKeyIds == {DEFAULT_KEY_ID, "a"}

\* Values of an Option<String> key_id argument over the key ids `ids`.
OptKeyIds(ids) == {None} \cup {Some(k) : k \in ids}

\* ssi::jwk::JWK: key material `mat`, key type `kty`, embedded `key_id`.
JWK(mat, kty, key_id) == [mat |-> mat, kty |-> kty, key_id |-> key_id]

\* Outcomes of JWK::generate_ed25519(): a fresh Ed25519 key (no key_id
\* yet), or a failure of the generator.
generate_ed25519 ==
    {[ok |-> TRUE, key |-> JWK(m, "OKP", None)] : m \in 1..MaxGenerated}
    \cup {[ok |-> FALSE, key |-> JWK(0, "OKP", None)]}

\* Keys a caller hands to import_session_key: a symmetric key (for which
\* did:key has no encoding), without and with a key id of its own.
ImportKeys ==
    { JWK(0, "oct", None), JWK(0, "oct", Some("b")) }

\* kepler_sdk::session::Session values: the proof `sid` and the key id
\* of the session's jwk.
Sessions ==
    { [sid |-> 1, jwk_key_id |-> None], [sid |-> 2, jwk_key_id |-> Some("a")] }

\* SessionInfo { key: Option<JWK>, session: Option<Session> }
SessionInfo(key, session) == [key |-> key, session |-> session]

\* SessionInfo::default()
SessionInfoDefault == SessionInfo(None, None)

\* ------------------------------------------------------------- HashMap
contains_key(m, k) == k \in DOMAIN m

insert(m, k, v) == [x \in (DOMAIN m) \cup {k} |-> IF x = k THEN v ELSE m[x]]

remove(m, k) == [x \in (DOMAIN m) \ {k} |-> m[x]]

EmptyMap == [x \in {} |-> SessionInfoDefault]

\* ------------------------------------------------------ host values
\* js_sys::JsString: the text and whether it is well-formed UTF-16.
JsString(str, utf16) == [str |-> str, utf16 |-> utf16]

\* JsString::as_string: None for a string that is not valid UTF-16.
as_string(js) == IF js.utf16 THEN Some(js.str) ELSE None

\* Iterator<Option<String>>::collect::<Option<Vec<String>>>
collect_strings(v) ==
    IF \E i \in DOMAIN v : as_string(v[i]) = None
    THEN None
    ELSE Some([i \in DOMAIN v |-> unwrap(as_string(v[i]))])

\* Namespace strings, as sequences of characters.
NamespaceChars == {"k", "v", "-"}

Namespaces == { <<"k", "v">>, <<"k", " ", "v">> }

\* <Namespace as FromStr>::from_str
namespace_parse(ns) ==
    IF ns # <<>> /\ \A i \in DOMAIN ns : ns[i] \in NamespaceChars
    THEN Some([namespace |-> ns])
    ELSE None

\* Action lists the host passes.
ActionLists ==
    { <<>>, <<JsString("read", TRUE)>>, <<JsString("\\ud800", FALSE)>> }

Targets == { "path" }

\* ExtraFields values of the host: a plain object, an object with a
\* cycle, `undefined`, and an array.
ExtraFieldsValues == { "object", "cyclic", "undefined", "array" }

\* JSON::stringify: throws on a cycle, yields `undefined` (not a string)
\* for undefined, a JSON text otherwise.
JSON_stringify(x) ==
    CASE x = "cyclic" -> [ok |-> FALSE, js |-> JsString("", FALSE)]
      [] x = "undefined" -> [ok |-> TRUE, js |-> JsString("", FALSE)]
      [] x = "array" -> [ok |-> TRUE, js |-> JsString("[1]", TRUE)]
      [] OTHER -> [ok |-> TRUE, js |-> JsString("{f:1}", TRUE)]

\* serde_json::from_str::<HashMap<String, Value>>: only a JSON object.
from_str_map(str) ==
    IF str = "{f:1}" THEN Some([f |-> 1]) ELSE None

\* ------------------------------------------------------- SIWE inputs
\* Length in bytes of siwe::Message.address.
AddressLen == 20

\* Characters of a hex string: 0..15 are the hexadecimal digits, CharX is
\* the letter x and CharOther a character that is no hexadecimal digit.
CharX == 16

CharOther == 17

GoodDigits == [i \in 1..(2 * AddressLen) |-> (7 * i) % 16]

Addresses ==
    { <<0, CharX>> \o GoodDigits,
      GoodDigits,
      <<0, CharX>> \o SubSeq(GoodDigits, 1, 6),
      [GoodDigits EXCEPT ![3] = CharOther] }

\* str::strip_prefix("0x").unwrap_or(hex)
strip_prefix(hex) ==
    IF Len(hex) >= 2 /\ hex[1] = 0 /\ hex[2] = CharX
    THEN SubSeq(hex, 3, Len(hex))
    ELSE hex

\* <[u8; N]>::from_hex
from_hex(digits, N) ==
    IF Len(digits) # 2 * N \/ \E i \in DOMAIN digits : digits[i] > 15
    THEN None
    ELSE Some([i \in 1..N |-> 16 * digits[2 * i - 1] + digits[2 * i]])

\* util::hex_to_bytes::<N>
hex_to_bytes(hex, N) == from_hex(strip_prefix(hex), N)

Domains == { "example.com", "exa mple" }

\* <Authority as FromStr>::from_str
authority_parse(domain) ==
    IF domain = "example.com" THEN Some(<<"authority", domain>>) ELSE None

Timestamps == { "2024-01-01T00:00:00Z", "yesterday" }

\* <TimeStamp as FromStr>::from_str
timestamp_parse(str) ==
    IF str = "2024-01-01T00:00:00Z" THEN Some(<<"time", str>>) ELSE None

\* URI texts are sequences that start with the scheme.
UriSchemes == { "did:key:z", "did:pkh:", "https:" }

\* UriString::from_str
uri_from_str(str) ==
    IF str # <<>> /\ str[1] \in UriSchemes THEN Some(<<"uri">> \o str) ELSE None

CustomUris == { None, Some(<<"did:pkh:", "eip155:1:0xfb">>), Some(<<"no uri">>) }

ResourceLists ==
    { None,
      Some(<<JsString(<<"https:", "r">>, TRUE)>>),
      Some(<<JsString(<<"no uri">>, TRUE)>>),
      Some(<<JsString(<<"https:", "r">>, FALSE)>>) }

Nonces == { None, Some("nonce0001") }

\* siwe::generate_nonce: a random token.
generate_nonce == { "rnd00001", "rnd00002" }

\* SiweConfig
SiweConfig(address, domain, nonce, issuedAt, expirationTime, notBefore, resources) ==
    [address |-> address, chainId |-> 1, domain |-> domain, nonce |-> nonce,
     issuedAt |-> issuedAt, expirationTime |-> expirationTime,
     notBefore |-> notBefore, requestId |-> None, resources |-> resources,
     statement |-> None]

GoodConfig ==
    SiweConfig(<<0, CharX>> \o GoodDigits, "example.com", Some("nonce0001"),
               "2024-01-01T00:00:00Z", None, None, None)

\* Every combination of the field values above.
AllConfigs ==
    { SiweConfig(a, d, n, i, e, nb, r) :
        a \in Addresses, d \in Domains, n \in Nonces, i \in Timestamps,
        e \in {None} \cup {Some(t) : t \in Timestamps},
        nb \in {None} \cup {Some(t) : t \in Timestamps},
        r \in ResourceLists }

\* The requests the callers of the manager make.
Configs ==
    { GoodConfig,
      [GoodConfig EXCEPT !.nonce = None],
      [GoodConfig EXCEPT !.address = GoodDigits,
                         !.resources = Some(<<JsString(<<"https:", "r">>, TRUE)>>)],
      [GoodConfig EXCEPT !.domain = "exa mple", !.issuedAt = "yesterday"] }

\* --------------------------------------------------------------- errors
\* The operations report failures as strings; the model keeps the fixed
\* part of each message.
ErrGenerate == "failed to generate session key"

ErrKeyExists == "key already exists"

ErrRenameMissing == "Key does not exist."

ErrRenameExists == "Key already exists."

ErrNoKeyId == "No key_id provided"

ErrKeyNotFound == "key not found"

ErrNoPrivateKey == "private key not found for key_id"

ErrDid == "unable to generate the DID of the session key"

ErrUri == "Failed to convert URI string to RiString"

ErrDomain == "failed to parse the domain as an authority"

ErrHex == "failed to parse as a hexstring"

ErrTimestamp == "unable to parse timestamp from string"

ErrResource == "unable to parse resource as uri"

ErrUtf16 == "error converting UTF-16 to UTF-8"

ErrBuild == "unable to build siwe message"

Ok == "ok"

\* A panic of the Rust code (Result::unwrap on an Err).
Panic == "panic"

\* ---------------------------------------------------------------- state
VARIABLES
    sessions,   \* SessionManager.sessions : key id -> SessionInfo
    builder,    \* SessionManager.builder  : the accumulated grants
    alive,      \* FALSE once the manager has been moved out of by build
    result      \* what the last operation returned

vars == <<sessions, builder, alive, result>>

\* The value an operation returned: `ret` is a returned key id, `text` a
\* returned text (identity URI, JWK JSON, SIWE message), `logs` the number
\* of console_error calls it made, `args` the arguments of a build.
Result(op, status, ret, text) ==
    [op |-> op, status |-> status, ret |-> ret, text |-> text, logs |-> 0,
     args |-> <<>>]

Logged(r, n) == [r EXCEPT !.logs = n]

Called(r, args) == [r EXCEPT !.args = args]

\* --------------------------------------------------- SessionManager::new
\* Variant of new_sessions that seeds the entry under the key's own label
\* instead of DEFAULT_KEY_ID.
new_sessions_unlabelled(default_key) ==
    insert(EmptyMap, "a",
           SessionInfo(Some([default_key EXCEPT !.key_id = Some("a")]), None))

new_sessions(default_key) ==
    insert(EmptyMap, DEFAULT_KEY_ID,
           SessionInfo(Some([default_key EXCEPT !.key_id = Some(DEFAULT_KEY_ID)]),
                       None))

Init ==
    /\ \E g \in generate_ed25519 :
          /\ g.ok
          /\ sessions = new_sessions(g.key)
    /\ builder = <<>>
    /\ alive = TRUE
    /\ result = Result("new", Ok, None, <<>>)

\* A caller constructs a new manager after the previous one was consumed.
New ==
    /\ ~alive
    /\ \E g \in generate_ed25519 :
          IF g.ok
          THEN /\ sessions' = new_sessions(g.key)
               /\ builder' = <<>>
               /\ alive' = TRUE
               /\ result' = Result("new", Ok, None, <<>>)
          ELSE /\ UNCHANGED <<sessions, builder, alive>>
               /\ result' = Result("new", ErrGenerate, None, <<>>)

\* ------------------------------------------ SessionManager::reset_builder
ResetBuilder ==
    /\ alive
    /\ builder' = <<>>
    /\ result' = Result("reset", Ok, None, <<>>)
    /\ UNCHANGED <<sessions, alive>>

\* ------------------------------------- SessionManager::add_default_actions
\* A grant of the capability builder.
Grant(namespace, target, action, fields) ==
    [namespace |-> namespace, target |-> target, action |-> action,
     fields |-> fields]

\* siwe_recap::Builder::with_default_actions
with_default_actions(b, namespace, actions) ==
    b \o [i \in DOMAIN actions |-> Grant(namespace, None, Some(actions[i]), None)]

\* siwe_recap::Builder::with_actions
with_actions(b, namespace, target, actions) ==
    b \o [i \in DOMAIN actions |-> Grant(namespace, Some(target), Some(actions[i]), None)]

\* siwe_recap::Builder::with_extra_fields
with_extra_fields(b, namespace, fields) ==
    Append(b, Grant(namespace, None, None, Some(fields)))

\* Variant of add_default_actions that takes the builder out of the
\* manager before it converts the actions.
add_default_actions_take_first(b, namespace, default_actions) ==
    LET ns == namespace_parse(namespace)
        actions == collect_strings(default_actions) IN
    IF ns = None THEN [builder |-> b, ret |-> FALSE, logs |-> 1]
    ELSE IF actions = None THEN [builder |-> <<>>, ret |-> FALSE, logs |-> 1]
    ELSE [builder |-> with_default_actions(b, unwrap(ns), unwrap(actions)),
          ret |-> TRUE, logs |-> 0]

add_default_actions(b, namespace, default_actions) ==
    LET ns == namespace_parse(namespace)
        actions == collect_strings(default_actions) IN
    IF ns = None THEN [builder |-> b, ret |-> FALSE, logs |-> 1]
    ELSE IF actions = None THEN [builder |-> b, ret |-> FALSE, logs |-> 1]
    ELSE [builder |-> with_default_actions(b, unwrap(ns), unwrap(actions)),
          ret |-> TRUE, logs |-> 0]

AddDefaultActionsOf(namespace, default_actions) ==
    /\ alive
    /\ LET r == add_default_actions(builder, namespace, default_actions) IN
          /\ Len(r.builder) <= MaxGrants
          /\ builder' = r.builder
          /\ result' = Logged(Result("add_default_actions",
                                     IF r.ret THEN "true" ELSE "false", None, <<>>),
                              r.logs)
    /\ UNCHANGED <<sessions, alive>>

AddDefaultActions ==
    \E namespace \in Namespaces, default_actions \in ActionLists :
        AddDefaultActionsOf(namespace, default_actions)

\* ------------------------------------ SessionManager::add_targeted_actions
add_targeted_actions(b, namespace, target, actions_arg) ==
    LET ns == namespace_parse(namespace)
        actions == collect_strings(actions_arg) IN
    IF ns = None THEN [builder |-> b, ret |-> FALSE, logs |-> 1]
    ELSE IF actions = None THEN [builder |-> b, ret |-> FALSE, logs |-> 1]
    ELSE [builder |-> with_actions(b, unwrap(ns), target, unwrap(actions)),
          ret |-> TRUE, logs |-> 0]

AddTargetedActionsOf(namespace, target, actions) ==
    /\ alive
    /\ LET r == add_targeted_actions(builder, namespace, target, actions) IN
          /\ Len(r.builder) <= MaxGrants
          /\ builder' = r.builder
          /\ result' = Logged(Result("add_targeted_actions",
                                     IF r.ret THEN "true" ELSE "false", None, <<>>),
                              r.logs)
    /\ UNCHANGED <<sessions, alive>>

AddTargetedActions ==
    \E namespace \in Namespaces, target \in Targets, actions \in ActionLists :
        AddTargetedActionsOf(namespace, target, actions)

\* ---------------------------------------- SessionManager::add_extra_fields
add_extra_fields(b, namespace, extra_fields) ==
    LET ns == namespace_parse(namespace)
        extra_fields_js_str == JSON_stringify(extra_fields)
        extra_fields_str == as_string(extra_fields_js_str.js)
    IN
    IF ns = None THEN [builder |-> b, ret |-> FALSE, logs |-> 1]
    ELSE IF ~extra_fields_js_str.ok THEN [builder |-> b, ret |-> FALSE, logs |-> 1]
    ELSE IF extra_fields_str = None THEN [builder |-> b, ret |-> FALSE, logs |-> 1]
    ELSE IF from_str_map(unwrap(extra_fields_str)) = None
    THEN [builder |-> b, ret |-> FALSE, logs |-> 1]
    ELSE [builder |-> with_extra_fields(b, unwrap(ns),
                                        unwrap(from_str_map(unwrap(extra_fields_str)))),
          ret |-> TRUE, logs |-> 0]

AddExtraFieldsOf(namespace, extra_fields) ==
    /\ alive
    /\ LET r == add_extra_fields(builder, namespace, extra_fields) IN
          /\ Len(r.builder) <= MaxGrants
          /\ builder' = r.builder
          /\ result' = Logged(Result("add_extra_fields",
                                     IF r.ret THEN "true" ELSE "false", None, <<>>),
                              r.logs)
    /\ UNCHANGED <<sessions, alive>>

AddExtraFields ==
    \E namespace \in Namespaces, extra_fields \in ExtraFieldsValues :
        AddExtraFieldsOf(namespace, extra_fields)

\* -------------------------------------- SessionManager::create_session_key
\* Variant of create_session_key without the contains_key check.
create_session_key_unchecked(s, key_id_arg, g) ==
    LET key_id == unwrap_or(key_id_arg, DEFAULT_KEY_ID) IN
    IF ~g.ok
    THEN [sessions |-> s, status |-> ErrGenerate, ret |-> None]
    ELSE [sessions |-> insert(s, key_id,
                          SessionInfo(Some([g.key EXCEPT !.key_id = Some(key_id)]),
                                      None)),
          status |-> IF contains_key(s, key_id) THEN ErrKeyExists ELSE Ok,
          ret |-> IF contains_key(s, key_id) THEN None ELSE Some(key_id)]

create_session_key(s, key_id_arg, g) ==
    LET key_id == unwrap_or(key_id_arg, DEFAULT_KEY_ID) IN
    IF contains_key(s, key_id)
    THEN [sessions |-> s, status |-> ErrKeyExists, ret |-> None]
    ELSE IF ~g.ok
    THEN [sessions |-> s, status |-> ErrGenerate, ret |-> None]
    ELSE [sessions |-> insert(s, key_id,
                          SessionInfo(Some([g.key EXCEPT !.key_id = Some(key_id)]),
                                      None)),
          status |-> Ok, ret |-> Some(key_id)]

CreateSessionKeyOf(key_id) ==
    /\ alive
    /\ \E g \in generate_ed25519 :
          LET r == create_session_key(sessions, key_id, g) IN
          /\ sessions' = r.sessions
          /\ result' = Result("create", r.status, r.ret, <<>>)
    /\ UNCHANGED <<builder, alive>>

CreateSessionKey(ids) == \E key_id \in OptKeyIds(ids) : CreateSessionKeyOf(key_id)

\* -------------------------------------- SessionManager::import_session_key
\* Variant of import_session_key that keeps the stored key when it
\* overrides an entry.
import_session_key_keep(s, key, key_id_arg, override_key_id) ==
    LET key_id == unwrap_or(key_id_arg, DEFAULT_KEY_ID) IN
    IF contains_key(s, key_id) /\ ~override_key_id
    THEN [sessions |-> s, status |-> ErrKeyExists, ret |-> None]
    ELSE [sessions |-> IF contains_key(s, key_id)
                       THEN insert(s, key_id, SessionInfo(s[key_id].key, None))
                       ELSE insert(s, key_id,
                              SessionInfo(Some([key EXCEPT !.key_id = Some(key_id)]),
                                          None)),
          status |-> Ok, ret |-> Some(key_id)]

import_session_key(s, key, key_id_arg, override_key_id) ==
    LET key_id == unwrap_or(key_id_arg, DEFAULT_KEY_ID) IN
    IF contains_key(s, key_id) /\ ~override_key_id
    THEN [sessions |-> s, status |-> ErrKeyExists, ret |-> None]
    ELSE [sessions |-> insert(s, key_id,
                          SessionInfo(Some([key EXCEPT !.key_id = Some(key_id)]),
                                      None)),
          status |-> Ok, ret |-> Some(key_id)]

ImportSessionKeyOf(key, key_id, override_key_id) ==
    /\ alive
    /\ LET r == import_session_key(sessions, key, key_id, override_key_id) IN
          /\ sessions' = r.sessions
          /\ result' = Result("import", r.status, r.ret, <<>>)
    /\ UNCHANGED <<builder, alive>>

ImportSessionKey(ids) ==
    \E key \in ImportKeys, key_id \in OptKeyIds(ids), override_key_id \in BOOLEAN :
        ImportSessionKeyOf(key, key_id, override_key_id)

\* --------------------------------------- SessionManager::list_session_keys
list_session_keys(s) == DOMAIN s

ListSessionKeys ==
    /\ alive
    /\ result' = Result("list", Ok, list_session_keys(sessions), <<>>)
    /\ UNCHANGED <<sessions, builder, alive>>

\* ----------------------------------- SessionManager::rename_session_key_id
\* Variant of rename_session_key_id that moves the key but not the session.
rename_session_key_id_key_only(s, old_key_id, new_key_id) ==
    IF ~contains_key(s, old_key_id)
    THEN [sessions |-> s, status |-> ErrRenameMissing]
    ELSE IF contains_key(s, new_key_id)
    THEN [sessions |-> s, status |-> ErrRenameExists]
    ELSE [sessions |-> insert(remove(s, old_key_id), new_key_id,
                              SessionInfo(s[old_key_id].key, None)),
          status |-> Ok]

\* Variant of rename_session_key_id without the check of new_key_id.
rename_session_key_id_overwrite(s, old_key_id, new_key_id) ==
    IF ~contains_key(s, old_key_id)
    THEN [sessions |-> s, status |-> ErrRenameMissing]
    ELSE [sessions |-> insert(remove(s, old_key_id), new_key_id, s[old_key_id]),
          status |-> IF contains_key(s, new_key_id) THEN ErrRenameExists ELSE Ok]

rename_session_key_id(s, old_key_id, new_key_id) ==
    IF ~contains_key(s, old_key_id)
    THEN [sessions |-> s, status |-> ErrRenameMissing]
    ELSE IF contains_key(s, new_key_id)
    THEN [sessions |-> s, status |-> ErrRenameExists]
    ELSE [sessions |-> insert(remove(s, old_key_id), new_key_id, s[old_key_id]),
          status |-> Ok]

RenameSessionKeyIdOf(old_key_id, new_key_id) ==
    /\ alive
    /\ LET r == rename_session_key_id(sessions, old_key_id, new_key_id) IN
          /\ sessions' = r.sessions
          /\ result' = Result("rename", r.status, None, <<>>)
    /\ UNCHANGED <<builder, alive>>

RenameSessionKeyId(ids) ==
    \E old_key_id \in ids, new_key_id \in ids :
        RenameSessionKeyIdOf(old_key_id, new_key_id)

\* ------------------------------------------ SessionManager::update_session
\* Variant of update_session that prefers the key id of the session.
update_session_session_first(s, session, key_id_arg) ==
    LET final_key_id == opt_or(session.jwk_key_id, key_id_arg) IN
    IF final_key_id = None
    THEN [sessions |-> s, status |-> ErrNoKeyId]
    ELSE LET k == unwrap(final_key_id)
             session_info == IF contains_key(s, k) THEN s[k] ELSE SessionInfoDefault
         IN [sessions |-> insert(s, k, [session_info EXCEPT !.session = Some(session)]),
             status |-> Ok]

update_session(s, session, key_id_arg) ==
    LET final_key_id == opt_or(key_id_arg, session.jwk_key_id) IN
    IF final_key_id = None
    THEN [sessions |-> s, status |-> ErrNoKeyId]
    ELSE LET k == unwrap(final_key_id)
             \* HashMap::entry(k).or_default()
             session_info == IF contains_key(s, k) THEN s[k] ELSE SessionInfoDefault
         IN [sessions |-> insert(s, k, [session_info EXCEPT !.session = Some(session)]),
             status |-> Ok]

UpdateSessionOf(session, key_id) ==
    /\ alive
    /\ LET r == update_session(sessions, session, key_id) IN
          /\ sessions' = r.sessions
          /\ result' = Result("attach", r.status, None, <<>>)
    /\ UNCHANGED <<builder, alive>>

UpdateSession(ids) ==
    \E session \in Sessions, key_id \in OptKeyIds(ids) : UpdateSessionOf(session, key_id)

\* ----------------------------------------- SessionManager::get_private_key
get_private_key(s, key_id_arg) ==
    LET key_id == unwrap_or(key_id_arg, DEFAULT_KEY_ID) IN
    IF ~contains_key(s, key_id)
    THEN [ok |-> FALSE, err |-> ErrKeyNotFound, key |-> None]
    ELSE IF s[key_id].key # None
    THEN [ok |-> TRUE, err |-> Ok, key |-> s[key_id].key]
    ELSE [ok |-> FALSE, err |-> ErrNoPrivateKey, key |-> None]

\* serde_json::to_string(&JWK): the JSON text of a key.
to_string(key) ==
    <<"{kty:", key.kty, "d:", key.mat, "kid:", key.key_id, "}">>

\* ----------------------------------------------------- SessionManager::jwk
jwk(s, key_id_arg) ==
    LET k == get_private_key(s, key_id_arg) IN
    IF ~k.ok
    THEN [status |-> Panic, text |-> <<>>]          \* .unwrap() on Err
    ELSE [status |-> Ok, text |-> to_string(unwrap(k.key))]

JwkOf(key_id) ==
    /\ alive
    /\ LET r == jwk(sessions, key_id) IN
          result' = Result("jwk", r.status, key_id, r.text)
    /\ UNCHANGED <<sessions, builder, alive>>

Jwk(ids) == \E key_id \in OptKeyIds(ids) : JwkOf(key_id)

\* ------------------------------------------------- SessionManager::get_did
\* DIDKey::generate(&Source::Key(key)): Some(did) for the key types
\* did:key encodes, None otherwise.
did_generate(key) ==
    IF key.kty = "OKP" THEN Some(<<"did:key:z", key.mat>>) ELSE None

\* get_verification_method(did): the DID URL of the first verification
\* method of the DID document.
get_verification_method(did) == Some(did \o <<"#z", did[2]>>)

get_did(s, key_id_arg) ==
    LET k == get_private_key(s, key_id_arg) IN
    IF ~k.ok
    THEN [status |-> Panic, text |-> <<>>]          \* .unwrap() on Err
    ELSE LET did == did_generate(unwrap(k.key)) IN
         IF did = None
         THEN [status |-> ErrDid, text |-> <<>>]
         ELSE [status |-> Ok, text |-> unwrap(get_verification_method(unwrap(did)))]

GetDidOf(key_id) ==
    /\ alive
    /\ LET r == get_did(sessions, key_id) IN
          result' = Result("get_did", r.status, key_id, r.text)
    /\ UNCHANGED <<sessions, builder, alive>>

GetDid(ids) == \E key_id \in OptKeyIds(ids) : GetDidOf(key_id)

\* --------------------------------------------------- SessionManager::build
\* Parses each resource of the request, stopping at the first failure.
RECURSIVE parse_resources(_)
parse_resources(v) ==
    IF v = <<>> THEN [status |-> Ok, uris |-> <<>>]
    ELSE LET str == as_string(Head(v)) IN
         IF str = None THEN [status |-> ErrUtf16, uris |-> <<>>]
         ELSE IF uri_from_str(unwrap(str)) = None
         THEN [status |-> ErrResource, uris |-> <<>>]
         ELSE LET rest == parse_resources(Tail(v)) IN
              IF rest.status # Ok THEN rest
              ELSE [status |-> Ok,
                    uris |-> <<unwrap(uri_from_str(unwrap(str)))>> \o rest.uris]

\* siwe::Message
Message(domain, address, statement, uri, chain_id, nonce, issued_at, expiration_time, not_before, request_id, resources) ==
    [domain |-> domain, address |-> address, statement |-> statement,
     uri |-> uri, version |-> 1, chain_id |-> chain_id, nonce |-> nonce,
     issued_at |-> issued_at, expiration_time |-> expiration_time,
     not_before |-> not_before, request_id |-> request_id,
     resources |-> resources]

\* siwe_recap::Builder::build: the message itself when no grant was
\* accumulated, else the message extended by the encoded grants; the
\* encoding can fail (encode_ok).
builder_build(b, message, encode_ok) ==
    IF b = <<>> THEN Some(message)
    ELSE IF ~encode_ok THEN None
    ELSE Some([message EXCEPT
                 !.statement = Some(<<"I further authorize", b>>),
                 !.resources = @ \o <<<<"uri", "urn:recap:", b>>>>])

\* <siwe::Message as Display>::to_string
message_to_string(m) ==
    << m.domain, "wants you to sign in with your Ethereum account:", m.address,
       m.statement, "URI:", m.uri, "Version:", m.version,
       "Chain ID:", m.chain_id, "Nonce:", m.nonce, "Issued At:", m.issued_at,
       "Expiration Time:", m.expiration_time, "Not Before:", m.not_before,
       "Request ID:", m.request_id, "Resources:", m.resources >>

\* Variant of build that decodes the address before it parses the domain.
build_address_first(s, b, config, key_id, custom_uri, random_nonce, encode_ok) ==
    LET did == IF custom_uri # None
               THEN [status |-> Ok, text |-> unwrap(custom_uri)]
               ELSE get_did(s, key_id)
        Err(e) == [status |-> e, text |-> <<>>]
    IN
    IF did.status # Ok THEN Err(did.status)
    ELSE
    LET uri == uri_from_str(did.text)
        domain == authority_parse(config.domain)
        address == hex_to_bytes(config.address, AddressLen)
        nonce == unwrap_or(config.nonce, random_nonce)
        issued_at == timestamp_parse(config.issuedAt)
        expiration_time ==
            IF config.expirationTime = None THEN Some(None)
            ELSE IF timestamp_parse(unwrap(config.expirationTime)) = None THEN None
            ELSE Some(timestamp_parse(unwrap(config.expirationTime)))
        not_before ==
            IF config.notBefore = None THEN Some(None)
            ELSE IF timestamp_parse(unwrap(config.notBefore)) = None THEN None
            ELSE Some(timestamp_parse(unwrap(config.notBefore)))
        resources == parse_resources(unwrap_or(config.resources, <<>>))
    IN
    IF uri = None THEN Err(ErrUri)
    ELSE IF address = None THEN Err(ErrHex)
    ELSE IF domain = None THEN Err(ErrDomain)
    ELSE IF issued_at = None THEN Err(ErrTimestamp)
    ELSE IF expiration_time = None THEN Err(ErrTimestamp)
    ELSE IF not_before = None THEN Err(ErrTimestamp)
    ELSE IF resources.status # Ok THEN Err(resources.status)
    ELSE
    LET message == Message(unwrap(domain), unwrap(address), config.statement,
                           unwrap(uri), config.chainId, nonce, unwrap(issued_at),
                           unwrap(expiration_time), unwrap(not_before),
                           config.requestId, resources.uris)
        siwe == builder_build(b, message, encode_ok)
    IN
    IF siwe = None THEN Err(ErrBuild)
    ELSE [status |-> Ok, text |-> message_to_string(unwrap(siwe))]

\* Variant of build that derives the identity of key_id even when a
\* custom_uri is given.
build_lookup_first(s, b, config, key_id, custom_uri, random_nonce, encode_ok) ==
    LET did == IF custom_uri # None /\ get_did(s, key_id).status = Ok
               THEN [status |-> Ok, text |-> unwrap(custom_uri)]
               ELSE get_did(s, key_id)
        Err(e) == [status |-> e, text |-> <<>>]
    IN
    IF did.status # Ok THEN Err(did.status)
    ELSE
    LET uri == uri_from_str(did.text)
        domain == authority_parse(config.domain)
        address == hex_to_bytes(config.address, AddressLen)
        nonce == unwrap_or(config.nonce, random_nonce)
        issued_at == timestamp_parse(config.issuedAt)
        expiration_time ==
            IF config.expirationTime = None THEN Some(None)
            ELSE IF timestamp_parse(unwrap(config.expirationTime)) = None THEN None
            ELSE Some(timestamp_parse(unwrap(config.expirationTime)))
        not_before ==
            IF config.notBefore = None THEN Some(None)
            ELSE IF timestamp_parse(unwrap(config.notBefore)) = None THEN None
            ELSE Some(timestamp_parse(unwrap(config.notBefore)))
        resources == parse_resources(unwrap_or(config.resources, <<>>))
    IN
    IF uri = None THEN Err(ErrUri)
    ELSE IF domain = None THEN Err(ErrDomain)
    ELSE IF address = None THEN Err(ErrHex)
    ELSE IF issued_at = None THEN Err(ErrTimestamp)
    ELSE IF expiration_time = None THEN Err(ErrTimestamp)
    ELSE IF not_before = None THEN Err(ErrTimestamp)
    ELSE IF resources.status # Ok THEN Err(resources.status)
    ELSE
    LET message == Message(unwrap(domain), unwrap(address), config.statement,
                           unwrap(uri), config.chainId, nonce, unwrap(issued_at),
                           unwrap(expiration_time), unwrap(not_before),
                           config.requestId, resources.uris)
        siwe == builder_build(b, message, encode_ok)
    IN
    IF siwe = None THEN Err(ErrBuild)
    ELSE [status |-> Ok, text |-> message_to_string(unwrap(siwe))]

build(s, b, config, key_id, custom_uri, random_nonce, encode_ok) ==
    LET did == IF custom_uri # None
               THEN [status |-> Ok, text |-> unwrap(custom_uri)]
               ELSE get_did(s, key_id)
        Err(e) == [status |-> e, text |-> <<>>]
    IN
    IF did.status # Ok THEN Err(did.status)
    ELSE
    LET uri == uri_from_str(did.text)
        domain == authority_parse(config.domain)
        address == hex_to_bytes(config.address, AddressLen)
        nonce == unwrap_or(config.nonce, random_nonce)
        issued_at == timestamp_parse(config.issuedAt)
        expiration_time ==
            IF config.expirationTime = None THEN Some(None)
            ELSE IF timestamp_parse(unwrap(config.expirationTime)) = None THEN None
            ELSE Some(timestamp_parse(unwrap(config.expirationTime)))
        not_before ==
            IF config.notBefore = None THEN Some(None)
            ELSE IF timestamp_parse(unwrap(config.notBefore)) = None THEN None
            ELSE Some(timestamp_parse(unwrap(config.notBefore)))
        resources == parse_resources(unwrap_or(config.resources, <<>>))
    IN
    IF uri = None THEN Err(ErrUri)
    ELSE IF domain = None THEN Err(ErrDomain)
    ELSE IF address = None THEN Err(ErrHex)
    ELSE IF issued_at = None THEN Err(ErrTimestamp)
    ELSE IF expiration_time = None THEN Err(ErrTimestamp)
    ELSE IF not_before = None THEN Err(ErrTimestamp)
    ELSE IF resources.status # Ok THEN Err(resources.status)
    ELSE
    LET message == Message(unwrap(domain), unwrap(address), config.statement,
                           unwrap(uri), config.chainId, nonce, unwrap(issued_at),
                           unwrap(expiration_time), unwrap(not_before),
                           config.requestId, resources.uris)
        siwe == builder_build(b, message, encode_ok)
    IN
    IF siwe = None THEN Err(ErrBuild)
    ELSE [status |-> Ok, text |-> message_to_string(unwrap(siwe))]

\* build takes the manager by value: whatever it returns, the manager,
\* its key store and its builder are dropped when it ends.  The nonce is
\* generated only for a request without one, and the grants are encoded
\* only when there are some.
BuildOf(config, key_id, custom_uri) ==
    /\ alive
    /\ \E random_nonce \in (IF config.nonce = None THEN generate_nonce ELSE {""}),
          encode_ok \in (IF builder = <<>> THEN {TRUE} ELSE BOOLEAN) :
          LET r == build(sessions, builder, config, key_id, custom_uri,
                         random_nonce, encode_ok) IN
          result' = Called(Result("build", r.status, key_id, r.text),
                           <<config, key_id, custom_uri>>)
    /\ alive' = FALSE
    /\ sessions' = EmptyMap
    /\ builder' = <<>>

Build(configs, ids) ==
    \E config \in configs, key_id \in OptKeyIds(ids), custom_uri \in CustomUris :
        BuildOf(config, key_id, custom_uri)

\* The operations on the key store, called with key ids among `ids`.
NextKeys(ids) ==
    \/ CreateSessionKey(ids)
    \/ ImportSessionKey(ids)
    \/ ListSessionKeys
    \/ RenameSessionKeyId(ids)
    \/ UpdateSession(ids)
    \/ Jwk(ids)
    \/ GetDid(ids)

\* The operations on the capability builder.
NextCapability ==
    \/ ResetBuilder
    \/ AddDefaultActions
    \/ AddTargetedActions
    \/ AddExtraFields

\* The whole manager.
Next ==
    \/ New
    \/ Build(Configs, SmallKeyIds)
    \/ NextCapability
    \/ NextKeys(SmallKeyIds)

Spec == Init /\ [][Next]_vars

\* ------------------------------------------- keys::import_key_from_base64
ErrBase64 == "Invalid base64 encoding"

ErrUtf8 == "Invalid UTF-8 in JWK"

ErrJwkFormat == "Invalid JWK format"

\* str::as_bytes: the UTF-8 bytes of a text.
as_bytes(text) == <<"utf8">> \o text

\* String::from_utf8
from_utf8(bytes) ==
    IF bytes # <<>> /\ bytes[1] = "utf8" THEN Some(Tail(bytes)) ELSE None

\* BASE64.encode
BASE64_encode(bytes) == <<"base64">> \o bytes

\* BASE64.decode
BASE64_decode(str) ==
    IF str # <<>> /\ str[1] = "base64" THEN Some(Tail(str)) ELSE None

\* serde_json::from_str::<JWK>: the inverse of to_string on JWK texts.
jwk_from_str(text) ==
    IF Len(text) = 7 /\ text[1] = "{kty:"
    THEN Some(JWK(text[4], text[2], text[6]))
    ELSE None

\* Values the host passes as base64_jwk: the encoded JWK texts of two
\* keys, a text that is not base64, encoded bytes that are not UTF-8
\* and an encoded text that is no JWK.
Base64Values ==
    { BASE64_encode(as_bytes(to_string(key))) :
        key \in {JWK(0, "oct", None), JWK(2, "OKP", Some("b"))} }
    \cup { <<"%%%">>,
           BASE64_encode(<<"0xff">>),
           BASE64_encode(as_bytes(<<"[1]">>)) }

\* TCWSessionManager::import_session_key_internal of sdk-rs: the import
\* operation of the key store.
import_session_key_internal(s, key, key_id_arg, override_key_id) ==
    import_session_key(s, key, key_id_arg, override_key_id)

import_key_from_base64(s, base64_jwk, key_id) ==
    LET Err(e) == [sessions |-> s, status |-> e, ret |-> None]
        jwk_bytes == BASE64_decode(base64_jwk)
    IN
    IF jwk_bytes = None THEN Err(ErrBase64)
    ELSE LET jwk_str == from_utf8(unwrap(jwk_bytes)) IN
    IF jwk_str = None THEN Err(ErrUtf8)
    ELSE LET key == jwk_from_str(unwrap(jwk_str)) IN
    IF key = None THEN Err(ErrJwkFormat)
    ELSE import_session_key_internal(s, unwrap(key), key_id, FALSE)

ImportKeyFromBase64Of(base64_jwk, key_id) ==
    /\ alive
    /\ LET r == import_key_from_base64(sessions, base64_jwk, key_id) IN
          /\ sessions' = r.sessions
          /\ result' = Result("importKeyFromBase64", r.status, r.ret, <<>>)
    /\ UNCHANGED <<builder, alive>>

ImportKeyFromBase64(ids) ==
    \E base64_jwk \in Base64Values, key_id \in OptKeyIds(ids) :
        ImportKeyFromBase64Of(base64_jwk, key_id)

\* ---------------------------------------- keys::import_key_from_env_value
import_key_from_env_value(s, env_value, key_id) ==
    import_key_from_base64(s, env_value, key_id)

ImportKeyFromEnvValueOf(env_value, key_id) ==
    /\ alive
    /\ LET r == import_key_from_env_value(sessions, env_value, key_id) IN
          /\ sessions' = r.sessions
          /\ result' = Result("importKeyFromEnvValue", r.status, r.ret, <<>>)
    /\ UNCHANGED <<builder, alive>>

ImportKeyFromEnvValue(ids) ==
    \E env_value \in Base64Values, key_id \in OptKeyIds(ids) :
        ImportKeyFromEnvValueOf(env_value, key_id)

\* The key store of the Node.js build: the key operations and the imports
\* of base64-encoded keys.
NextNode ==
    \/ ImportKeyFromBase64(SmallKeyIds)
    \/ ImportKeyFromEnvValue(SmallKeyIds)
    \/ NextKeys(SmallKeyIds)

SpecNode == Init /\ [][NextNode]_vars

\* Key ids of the callers of build: "default" and an id that no entry of
\* NextBuild is stored under.
BuildKeyIds == {DEFAULT_KEY_ID, "b"}

\* Builds of every request, on managers whose key under "default" was
\* generated, replaced by an imported key or renamed away, with and
\* without grants.
NextBuild ==
    \/ New
    \/ Build(AllConfigs, BuildKeyIds)
    \/ AddDefaultActions
    \/ ImportSessionKey({DEFAULT_KEY_ID})
    \/ RenameSessionKeyId(SmallKeyIds)

SpecBuild == Init /\ [][NextBuild]_vars

\* The key store alone: the capability builder is never touched and the
\* manager is never consumed.
SpecKeys == Init /\ [][NextKeys(KeyIds)]_vars


\* ================================================================ claims

\* C1: in every reachable state every entry of the key store holds key
\* material whose embedded key_id equals the map key of the entry.
C1_KeyIdMatchesMapKey ==
    \A k \in DOMAIN sessions :
        /\ sessions[k].key # None
        /\ unwrap(sessions[k].key).key_id = Some(k)

\* C2: after construction the set of key ids gains an id only in a step
\* of construct, create, import or rename.
C2_OnlyExplicitOpsAddEntries ==
    [][ ~(DOMAIN sessions' \subseteq DOMAIN sessions)
          => result'.op \in {"new", "create", "import", "rename"} ]_vars

\* C3: export (jwk) and get_identity_uri (get_did) called with a key id
\* that is not in the key store return the key-not-found error and do not
\* panic.
C3_MissingKeyIsAnErrorValue ==
    ( /\ result.op \in {"jwk", "get_did"}
      /\ ~contains_key(sessions, unwrap_or(result.ret, DEFAULT_KEY_ID)) )
        => result.status = ErrKeyNotFound

\* C4: a build, successful or failed, leaves the grants and the key
\* entries as they were and the manager usable.
C4_BuildOnlyReads ==
    [][ \A config \in Configs, key_id \in OptKeyIds(SmallKeyIds),
           custom_uri \in CustomUris :
          (result'.op = "build" /\ BuildOf(config, key_id, custom_uri))
            => /\ alive'
               /\ sessions' = sessions
               /\ builder' = builder ]_vars

\* C5: a freshly constructed manager has exactly one key entry, under
\* "default", holding a generated key and no session.
C5_FreshManager ==
    (result.op = "new" /\ result.status = Ok)
        => /\ DOMAIN sessions = {"default"}
           /\ sessions["default"].key # None
           /\ \E g \in generate_ed25519 :
                 /\ g.ok
                 /\ unwrap(sessions["default"].key).mat = g.key.mat
                 /\ unwrap(sessions["default"].key).kty = g.key.kty
           /\ sessions["default"].session = None

C5_Witness ==
    /\ result.op = "new"
    /\ result.status = Ok
    /\ alive
    /\ Cardinality(DOMAIN sessions) = 1

\* C6: create(id) on a key store that contains id (an omitted id meaning
\* "default") fails with the key-exists error and leaves every entry of
\* the key store as it was.
C6_DuplicateCreateFails ==
    [][ \A key_id \in OptKeyIds(KeyIds) :
          ( /\ result'.op = "create"
            /\ contains_key(sessions, unwrap_or(key_id, "default"))
            /\ CreateSessionKeyOf(key_id) )
            => /\ result'.status = ErrKeyExists
               /\ DOMAIN sessions' = DOMAIN sessions
               /\ \A k \in DOMAIN sessions :
                     /\ sessions'[k].key = sessions[k].key
                     /\ sessions'[k].session = sessions[k].session ]_vars

C6_Witness ==
    /\ result.op = "create"
    /\ result.status = ErrKeyExists
    /\ \E k \in DOMAIN sessions : sessions[k].session # None

\* C7: import(key, id, allow_override) on a store that contains id: without
\* override it fails with the key-exists error and the key under id is
\* unchanged; with override it succeeds, returns id and the key under id
\* is the imported key (labelled id); in both cases the set of key ids and
\* all other entries are unchanged.
C7_ImportOnExistingId ==
    [][ \A key \in ImportKeys, key_id \in OptKeyIds(KeyIds),
           override_key_id \in BOOLEAN :
          LET id == unwrap_or(key_id, "default") IN
          ( /\ result'.op = "import"
            /\ contains_key(sessions, id)
            /\ ImportSessionKeyOf(key, key_id, override_key_id) )
            => /\ IF override_key_id
                  THEN /\ result'.status = Ok
                       /\ result'.ret = Some(id)
                       /\ sessions'[id].key = Some([key EXCEPT !.key_id = Some(id)])
                  ELSE /\ result'.status = ErrKeyExists
                       /\ sessions'[id].key = sessions[id].key
               /\ DOMAIN sessions' = DOMAIN sessions
               /\ \A k \in DOMAIN sessions \ {id} : sessions'[k] = sessions[k] ]_vars

\* An import succeeded and the store still has one entry: the import
\* replaced the key of the only entry.
C7_Witness ==
    /\ result.op = "import"
    /\ result.status = Ok
    /\ Cardinality(DOMAIN sessions) = 1
    /\ \E k \in DOMAIN sessions : sessions[k].key \in {Some([key EXCEPT !.key_id = Some(k)]) : key \in ImportKeys}

\* C8: a successful rename(a, b) (a present, b absent) moves the whole
\* entry: afterwards the list of ids contains b and not a, the number of
\* entries is unchanged, the key and the session that were under a are
\* under b, and every other entry is unchanged.
C8_RenameMovesEntry ==
    [][ \A a \in KeyIds, b \in KeyIds :
          ( /\ result'.op = "rename"
            /\ contains_key(sessions, a)
            /\ ~contains_key(sessions, b)
            /\ RenameSessionKeyIdOf(a, b) )
            => /\ result'.status = Ok
               /\ b \in list_session_keys(sessions')
               /\ a \notin list_session_keys(sessions')
               /\ Cardinality(DOMAIN sessions') = Cardinality(DOMAIN sessions)
               /\ sessions'[b].key = sessions[a].key
               /\ sessions'[b].session = sessions[a].session
               /\ \A k \in DOMAIN sessions \ {a} :
                     /\ contains_key(sessions', k)
                     /\ sessions'[k] = sessions[k] ]_vars

\* A rename succeeded, and an entry that carries a session is stored
\* under an id other than the one embedded in its key, next to another
\* entry.
C8_Witness ==
    /\ result.op = "rename"
    /\ result.status = Ok
    /\ Cardinality(DOMAIN sessions) >= 2
    /\ \E k \in DOMAIN sessions :
          /\ sessions[k].session # None
          /\ sessions[k].key # None
          /\ unwrap(sessions[k].key).key_id # Some(k)

\* C9: rename(old, new) fails with the key-missing error when old is
\* absent and with the key-exists error when old is present and new is
\* present (new = old included); a failing rename leaves the key store as
\* it was.
C9_RenameFailures ==
    [][ \A old \in KeyIds, new \in KeyIds :
          (result'.op = "rename" /\ RenameSessionKeyIdOf(old, new))
            => /\ ~contains_key(sessions, old)
                    => result'.status = ErrRenameMissing
               /\ (contains_key(sessions, old) /\ contains_key(sessions, new))
                    => result'.status = ErrRenameExists
               /\ result'.status # Ok => sessions' = sessions ]_vars

C9_Witness ==
    /\ result.op = "rename"
    /\ result.status = ErrRenameExists
    /\ Cardinality(DOMAIN sessions) >= 2

\* C10: attach_session fails with the no-key-id error, changing nothing,
\* when the key id is omitted and the proof carries none; otherwise the id
\* is the explicit one, else the one of the proof, and the entry under it
\* gets the proof as its session, its key and all other entries unchanged.
C10_AttachSession ==
    [][ \A session \in Sessions, key_id \in OptKeyIds(KeyIds) :
          (result'.op = "attach" /\ UpdateSessionOf(session, key_id))
            => IF key_id = None /\ session.jwk_key_id = None
               THEN /\ result'.status = ErrNoKeyId
                    /\ sessions' = sessions
               ELSE LET id == IF key_id # None THEN unwrap(key_id)
                                               ELSE unwrap(session.jwk_key_id)
                    IN /\ result'.status = Ok
                       /\ contains_key(sessions', id)
                       /\ sessions'[id].session = Some(session)
                       /\ sessions'[id].key =
                              (IF contains_key(sessions, id)
                               THEN sessions[id].key ELSE None)
                       /\ \A k \in KeyIds \ {id} :
                             /\ contains_key(sessions', k) <=> contains_key(sessions, k)
                             /\ contains_key(sessions, k) => sessions'[k] = sessions[k]
       ]_vars

\* An attach succeeded and a proof that names key id "a" is attached to
\* the key of another id: the explicit id took precedence.
C10_Witness ==
    /\ result.op = "attach"
    /\ result.status = Ok
    /\ \E k \in DOMAIN sessions \ {"a"} :
          /\ sessions[k].key # None
          /\ unwrap(sessions[k].key).key_id = Some(k)
          /\ sessions[k].session # None
          /\ unwrap(sessions[k].session).jwk_key_id = Some("a")

\* C11: with_default_actions, with_targeted_actions and with_extra_fields
\* called with a namespace that does not parse, or with an action or
\* field argument that cannot be converted, return false, log once and
\* leave the accumulated grants as they were.
C11_FailedAddIsAtomic ==
    [][ LET NotUtf16(actions) == \E i \in DOMAIN actions : ~actions[i].utf16
            Failed == /\ result'.status = "false"
                      /\ result'.logs = 1
                      /\ builder' = builder
        IN
        /\ \A namespace \in Namespaces, actions \in ActionLists :
              ( /\ result'.op = "add_default_actions"
                /\ namespace_parse(namespace) = None \/ NotUtf16(actions)
                /\ AddDefaultActionsOf(namespace, actions) )
                => Failed
        /\ \A namespace \in Namespaces, target \in Targets, actions \in ActionLists :
              ( /\ result'.op = "add_targeted_actions"
                /\ namespace_parse(namespace) = None \/ NotUtf16(actions)
                /\ AddTargetedActionsOf(namespace, target, actions) )
                => Failed
        /\ \A namespace \in Namespaces, extra_fields \in ExtraFieldsValues :
              ( /\ result'.op = "add_extra_fields"
                /\ namespace_parse(namespace) = None \/ extra_fields # "object"
                /\ AddExtraFieldsOf(namespace, extra_fields) )
                => Failed ]_vars

\* An add operation failed on a builder that holds a grant.
C11_Witness ==
    /\ result.op \in {"add_default_actions", "add_targeted_actions", "add_extra_fields"}
    /\ result.status = "false"
    /\ result.logs = 1
    /\ builder # <<>>

\* The outcome of each validation step of a build of `config` for `key_id`
\* and `custom_uri` on the key store `s`, in the order of the steps:
\* signer identity URI, domain, address, issued-at, expiration time,
\* not-before, resources.
BuildSteps(s, config, key_id, custom_uri) ==
    LET Time(t) == IF t # None /\ timestamp_parse(unwrap(t)) = None
                   THEN ErrTimestamp ELSE Ok
    IN << IF custom_uri = None THEN get_did(s, key_id).status
          ELSE IF uri_from_str(unwrap(custom_uri)) = None THEN ErrUri ELSE Ok,
          IF authority_parse(config.domain) = None THEN ErrDomain ELSE Ok,
          IF hex_to_bytes(config.address, AddressLen) = None THEN ErrHex ELSE Ok,
          Time(Some(config.issuedAt)),
          Time(config.expirationTime),
          Time(config.notBefore),
          parse_resources(unwrap_or(config.resources, <<>>)).status >>

C13_CustomUriSkipsLookup ==
    [][ (result'.op = "build" /\ alive)
          => LET key_id == result'.args[2]
                 custom_uri == result'.args[3]
                 did == get_did(sessions, key_id)
             IN IF custom_uri # None
                THEN /\ result'.status \notin
                            {Panic, ErrDid, ErrKeyNotFound, ErrNoPrivateKey}
                     /\ result'.status = Ok
                           => Some(result'.text[6]) = uri_from_str(unwrap(custom_uri))
                ELSE /\ did.status # Ok => result'.status = did.status
                     /\ result'.status = Ok
                           => Some(result'.text[6]) = uri_from_str(did.text) ]_vars

\* A build with a custom_uri succeeded for key id "b", which no entry of
\* SpecBuild is stored under.
C13_Witness ==
    /\ result.op = "build"
    /\ result.status = Ok
    /\ result.args[2] = Some("b")
    /\ result.args[3] # None

\* C14: importKeyFromBase64 and importKeyFromEnvValue called with the
\* base64 encoding of a JWK store the key under the given key id, or under
\* "default" when the key id is omitted, and return that key id.
C14_Base64ImportStoresKey ==
    [][ \A base64_jwk \in Base64Values, key_id \in OptKeyIds(SmallKeyIds) :
          \A key \in { k \in ImportKeys \cup {JWK(2, "OKP", Some("b"))} :
                         base64_jwk = BASE64_encode(as_bytes(to_string(k))) } :
            ( /\ result'.op \in {"importKeyFromBase64", "importKeyFromEnvValue"}
              /\ \/ ImportKeyFromBase64Of(base64_jwk, key_id)
                 \/ ImportKeyFromEnvValueOf(base64_jwk, key_id) )
              => LET id == unwrap_or(key_id, "default") IN
                 /\ result'.status = Ok
                 /\ result'.ret = Some(id)
                 /\ contains_key(sessions', id)
                 /\ sessions'[id].key = Some([key EXCEPT !.key_id = Some(id)]) ]_vars

\* C15: a session stored for a key id survives every later operation
\* except an overriding import on that id, which replaces the whole entry
\* and leaves the id without a session.  (A rename of the id itself moves
\* the session with the entry, and an attach on the id replaces it; create,
\* renames and attaches on other ids, capability operations and failed
\* calls leave it as it is.)
C15_SessionSurvives ==
    [][ /\ \A id \in DOMAIN sessions :
              sessions[id].session # None
                => \/ /\ contains_key(sessions', id)
                      /\ sessions'[id].session = sessions[id].session
                   \/ /\ result'.op = "import"
                      /\ result'.status = Ok
                      /\ result'.ret = Some(id)
                   \/ /\ result'.op = "rename"
                      /\ result'.status = Ok
                      /\ ~contains_key(sessions', id)
                      /\ \E new \in DOMAIN sessions' \ DOMAIN sessions :
                            sessions'[new].session = sessions[id].session
                   \/ /\ result'.op = "attach"
                      /\ result'.status = Ok
                      /\ contains_key(sessions', id)
                      /\ sessions'[id].session # None
        /\ \A key \in ImportKeys, key_id \in OptKeyIds(KeyIds) :
              LET id == unwrap_or(key_id, "default") IN
              ( /\ result'.op = "import"
                /\ contains_key(sessions, id)
                /\ ImportSessionKeyOf(key, key_id, TRUE) )
                => /\ contains_key(sessions', id)
                   /\ sessions'[id].session = None ]_vars

====
